---- MODULE Spec2Model ----
(***************************************************************************)
(* Model of the DeArrow Browser front-end (dearrow-browser-frontend,       *)
(* src/main.rs): the router state, the per-page table mode, the polled     *)
(* AppContext.last_updated, and the detail view that fetches through       *)
(* use_async_suspension and renders either the Suspense fallback, the      *)
(* error message or a table.                                               *)
(*                                                                         *)
(* Every event handler is one action: a handler's state change and the     *)
(* re-render it schedules run to completion on the single UI thread        *)
(* before any network callback is delivered.                               *)
(***************************************************************************)
EXTENDS Integers, Sequences, FiniteSets, TLC

(* ------------------------------ bounds --------------------------------- *)

\* detail GETs sent during one session
MaxFetches == 3
\* status GETs that may be in flight at once (use_interval does not wait)
MaxPolls == 1
\* records in one response body
MaxRows == 2

VideoIds == {"v1", "v2"}
UserIds == {"u1", "u2"}
\* last_updated values the status endpoint reports
Timestamps == {1, 2}

(* -------------------------- Option<T> ---------------------------------- *)
\* Option<T> is a sequence of length at most one.
None == <<>>
Some(x) == <<x>>

(* ------------------------------ Route ---------------------------------- *)

Home == [page |-> "Home", id |-> ""]
Video(id) == [page |-> "Video", id |-> id]
User(id) == [page |-> "User", id |-> id]
NotFound == [page |-> "NotFound", id |-> ""]

Route == {Home, NotFound} \cup {Video(v) : v \in VideoIds} \cup {User(u) : u \in UserIds}

DetailType == {"Title", "Thumbnail"}

(* --------------------------- WindowContext ----------------------------- *)

\* window.location.origin, read once at startup
WindowOrigin == "origin"

\* Url::join with a path-absolute reference keeps the origin and replaces
\* the path; a path is the sequence of its segments.
UrlJoin(origin, path) == [origin |-> origin, path |-> path]

(* ------------------------------ pages ---------------------------------- *)
\* Each page component maps its props and its table_mode state to the props
\* it passes to DetailTableRenderer.

HomePage(table_mode) ==
    [ url |-> IF table_mode = "Title"
                THEN UrlJoin(WindowOrigin, <<"api", "titles">>)
                ELSE UrlJoin(WindowOrigin, <<"api", "thumbnails">>),
      mode |-> table_mode,
      hide_userid |-> FALSE,
      hide_videoid |-> FALSE ]

VideoPageSwapped(videoid, table_mode) ==
    [ url |-> IF table_mode = "Title"
                THEN UrlJoin(WindowOrigin, <<"api", "thumbnails", "video_id", videoid>>)
                ELSE UrlJoin(WindowOrigin, <<"api", "titles", "video_id", videoid>>),
      mode |-> table_mode,
      hide_userid |-> FALSE,
      hide_videoid |-> TRUE ]
VideoPage(videoid, table_mode) ==
    [ url |-> IF table_mode = "Title"
                THEN UrlJoin(WindowOrigin, <<"api", "titles", "video_id", videoid>>)
                ELSE UrlJoin(WindowOrigin, <<"api", "thumbnails", "video_id", videoid>>),
      mode |-> table_mode,
      hide_userid |-> FALSE,
      hide_videoid |-> TRUE ]

UserPageHidesVideoId(userid, table_mode) ==
    [ url |-> IF table_mode = "Title"
                THEN UrlJoin(WindowOrigin, <<"api", "titles", "user_id", userid>>)
                ELSE UrlJoin(WindowOrigin, <<"api", "thumbnails", "user_id", userid>>),
      mode |-> table_mode,
      hide_userid |-> FALSE,
      hide_videoid |-> TRUE ]
UserPage(userid, table_mode) ==
    [ url |-> IF table_mode = "Title"
                THEN UrlJoin(WindowOrigin, <<"api", "titles", "user_id", userid>>)
                ELSE UrlJoin(WindowOrigin, <<"api", "thumbnails", "user_id", userid>>),
      mode |-> table_mode,
      hide_userid |-> TRUE,
      hide_videoid |-> FALSE ]

\* Routes whose page holds a table_mode and a DetailTableRenderer.
HasDetailView(r) == r.page \in {"Home", "Video", "User"}

\* render_route: the props of the DetailTableRenderer the route's page
\* renders (only asked for routes with a detail view).
render_route(r, table_mode) ==
    CASE r.page = "Home" -> HomePage(table_mode)
      [] r.page = "Video" -> VideoPage(r.id, table_mode)
      [] r.page = "User" -> UserPage(r.id, table_mode)

(* ------------------------- responses and parsing ----------------------- *)

\* The submissions a response body can carry (uuid is unique per record).
Records ==
    { [uuid |-> "a", video_id |-> "v1", user_id |-> "u1"],
      [uuid |-> "b", video_id |-> "v2", user_id |-> "u2"] }

\* Lists of distinct records, at most MaxRows long.
RecordLists ==
    { l \in UNION { [1..n -> Records] : n \in 0..MaxRows } :
        \A i, j \in 1..Len(l) : i # j => l[i].uuid # l[j].uuid }

\* JSON fields of the objects of a body, by the record kind the server sent.
TitleFields ==
    { "uuid", "video_id", "user_id", "title", "time_submitted", "score",
      "votes", "unverified", "locked", "shadow_hidden", "original" }
ThumbnailFields ==
    { "uuid", "video_id", "user_id", "time_submitted", "timestamp",
      "votes", "locked", "shadow_hidden", "original" }

FieldsOf(shape) == IF shape = "titles" THEN TitleFields ELSE ThumbnailFields

\* Fields Vec<ApiTitle> / Vec<ApiThumbnail> need in every object
\* (timestamp is optional).
RequiredFields(mode) ==
    IF mode = "Title" THEN TitleFields ELSE ThumbnailFields \ {"timestamp"}

\* The JSON object the server sends for submission r with attributes a, as
\* a title and as a thumbnail. An absent or null timestamp is None.
TitleObject(r, a) ==
    [ uuid |-> r.uuid, video_id |-> r.video_id, user_id |-> r.user_id,
      title |-> "Foo", time_submitted |-> 1700000000,
      score |-> a.score, votes |-> a.votes, unverified |-> a.unverified,
      locked |-> a.locked, shadow_hidden |-> a.shadow_hidden,
      original |-> a.original ]
ThumbnailObject(r, a) ==
    [ uuid |-> r.uuid, video_id |-> r.video_id, user_id |-> r.user_id,
      time_submitted |-> 1700000000, timestamp |-> a.timestamp,
      votes |-> a.votes, locked |-> a.locked,
      shadow_hidden |-> a.shadow_hidden, original |-> a.original ]

\* The attributes every record of the browsing model carries.
PlainAttrs ==
    [ score |-> 5, votes |-> 5, unverified |-> FALSE, locked |-> FALSE,
      shadow_hidden |-> FALSE, original |-> FALSE, timestamp |-> None ]

ObjectList(shape, l, a) ==
    [ i \in 1..Len(l) |->
        IF shape = "titles" THEN TitleObject(l[i], a) ELSE ThumbnailObject(l[i], a) ]

MalformedBody == [shape |-> "malformed", recs |-> <<>>]
Bodies ==
    { MalformedBody } \cup
    { [shape |-> sh, recs |-> ObjectList(sh, l, PlainAttrs)] :
        sh \in {"titles", "thumbnails"}, l \in RecordLists }

\* Response::json::<Vec<_>>(): the body is a JSON array whose every object
\* has the fields the record type requires.
JsonParses(mode, body) ==
    /\ body.shape # "malformed"
    /\ \A i \in 1..Len(body.recs) : RequiredFields(mode) \subseteq FieldsOf(body.shape)

\* Deserialize of ApiTitle / ApiThumbnail: the fields of the struct are read
\* from the object, other fields are ignored, a missing Option is None.
ParseRecord(mode, o) ==
    IF mode = "Title" THEN [ f \in TitleFields |-> o[f] ]
    ELSE [ f \in ThumbnailFields |->
             IF f \in DOMAIN o THEN o[f] ELSE None ]

ParseList(mode, recs) == [ i \in 1..Len(recs) |-> ParseRecord(mode, recs[i]) ]

\* What reqwest::get(url).await yields: a transport error, or a response
\* with any HTTP status and any body.
TransportError == [sent |-> FALSE, status |-> 0, body |-> MalformedBody]
HttpStatuses == {200, 500}
Responses ==
    { TransportError } \cup [sent : {TRUE}, status : HttpStatuses, body : Bodies]

(* ------------------------------ FetchResult ---------------------------- *)

Pending == [tag |-> "Pending", kind |-> "", list |-> <<>>]
Err == [tag |-> "Err", kind |-> "", list |-> <<>>]
Ok(kind, list) == [tag |-> "Ok", kind |-> kind, list |-> list]

\* The future DetailTableRenderer hands to use_async_suspension:
\* `reqwest::get(url).await?` fails only on a transport error; the body is
\* then decoded according to the mode of the deps tuple.
DetailFetchSwappedArms(mode, resp) ==
    IF ~resp.sent THEN Err
    ELSE IF ~JsonParses(mode, resp.body) THEN Err
    ELSE IF mode = "Thumbnail" THEN Ok("Titles", ParseList(mode, resp.body.recs))
    ELSE Ok("Thumbnails", ParseList(mode, resp.body.recs))
DetailFetchDefaultOnError(mode, resp) ==
    IF resp.sent /\ JsonParses(mode, resp.body)
      THEN Ok(IF mode = "Thumbnail" THEN "Thumbnails" ELSE "Titles",
              ParseList(mode, resp.body.recs))
      ELSE Ok(IF mode = "Thumbnail" THEN "Thumbnails" ELSE "Titles", <<>>)
DetailFetch(mode, resp) ==
    IF ~resp.sent THEN Err
    ELSE IF ~JsonParses(mode, resp.body) THEN Err
    ELSE IF mode = "Thumbnail" THEN Ok("Thumbnails", ParseList(mode, resp.body.recs))
    ELSE Ok("Titles", ParseList(mode, resp.body.recs))

\* The deps tuple of the hook: (props.mode, props.url, app_context.last_updated).
FetchKeyNoFreshness(mode, url, last_updated) == <<mode, url, None>>
FetchKeyNoUrl(mode, url, last_updated) == <<mode, WindowOrigin, last_updated>>
FetchKey(mode, url, last_updated) == <<mode, url, last_updated>>

(* ------------------------------ status poll ---------------------------- *)

\* A status body: None when it is no StatusResponse JSON, Some(t) when it
\* decodes to a StatusResponse with last_updated = t.
StatusBodies == {None} \cup {Some(t) : t \in Timestamps}
StatusResponses ==
    { [sent |-> FALSE, status |-> 0, body |-> None] }
        \cup [sent : {TRUE}, status : HttpStatuses, body : StatusBodies]

\* The future of the status hook: Some(last_updated) for Ok(StatusResponse),
\* None for Err.
StatusFetch(resp) ==
    IF resp.sent THEN resp.body ELSE None

(* ------------------------------- state --------------------------------- *)

VARIABLES
    route,              \* current Route of the BrowserRouter
    searchbar_visible,  \* Header state
    status_data,        \* status.data.map(|d| d.last_updated) : Option<i64>
    status_error,       \* status.error.is_some()
    polls,              \* status GETs in flight
    table_mode,         \* table_mode state of the mounted page
    deps,               \* deps the hook of the mounted view last observed
    cur,                \* id of the fetch the mounted view waits for or shows
    details,            \* FetchResult of the mounted view
    served,             \* the completion `details` came from: [resp, id, mode]
    last_stale,         \* a superseded future completed after the current
                        \* result was delivered
    last_get,           \* url of the detail GET sent last
    inflight,           \* detail futures awaiting their response: [id, mode]
    nextId              \* id of the next detail fetch (1 + GETs sent so far)

vars ==
    << route, searchbar_visible, status_data, status_error, polls, table_mode,
       deps, cur, details, served, last_stale, last_get, inflight, nextId >>

\* AppContext, memoised on status.data's last_updated.
AppContextStale(last_updated) == [last_updated |-> None]
AppContext(last_updated) == [last_updated |-> last_updated]

(* --------------------------- use_async_suspension ---------------------- *)

\* First render of a hook instance, or a render whose deps differ from the
\* ones last observed: start the future for the new deps and suspend. The
\* previous result is dropped; the previous future is logically cancelled.
\* The future sends its GET to the url of its deps at once; what it keeps
\* while it awaits the response is the mode it decodes the body with.
StartFetch(key) ==
    /\ nextId <= MaxFetches
    /\ deps' = Some(key)
    /\ cur' = nextId
    /\ nextId' = nextId + 1
    /\ inflight' = inflight \cup { [id |-> nextId, mode |-> key[1]] }
    /\ last_get' = Some(key[2])
    /\ last_stale' = FALSE
    /\ details' = Pending
    /\ served' = None

\* `fresh`: the component was just created (its hook has no state yet).
use_async_suspension(key, fresh) ==
    IF fresh \/ deps # Some(key) THEN StartFetch(key)
    ELSE UNCHANGED << deps, cur, details, served, last_stale, last_get,
                      inflight, nextId >>

\* A future completes with `result`: it is kept only when it is the future
\* of the deps currently observed by the mounted view.
Resume(f, resp, result) ==
    /\ inflight' = inflight \ {f}
    /\ IF f.id = cur
         THEN /\ details' = result
              /\ served' = Some([resp |-> resp, id |-> f.id, mode |-> f.mode])
         ELSE UNCHANGED << details, served >>
    /\ last_stale' = (f.id # cur /\ details # Pending)
    /\ UNCHANGED << deps, cur, last_get, nextId >>

\* The view is destroyed with its page; its requests stay in flight.
Unmount ==
    /\ deps' = None
    /\ cur' = 0
    /\ details' = Pending
    /\ served' = None
    /\ last_stale' = FALSE
    /\ UNCHANGED << last_get, inflight, nextId >>

(* ------------------------------ rendering ------------------------------ *)

DetailTableRenderer(props, app_context, fresh) ==
    use_async_suspension(
        FetchKey(props.mode, props.url, app_context.last_updated), fresh)

\* Re-render of the Switch for route r, table mode m and context c, coming
\* from the route `route`. A page component is reused when the new route
\* renders the same component type, and re-created otherwise.
RerenderRecreates(r, m, c) ==
    IF HasDetailView(r)
      THEN DetailTableRenderer(render_route(r, m), c, TRUE)
      ELSE Unmount
Rerender(r, m, c) ==
    IF HasDetailView(r)
      THEN DetailTableRenderer(render_route(r, m), c, r.page # route.page)
      ELSE Unmount

\* navigator.push(r), a Link or the browser history: the router switches
\* to r. A re-created page starts with table_mode = Title.
NavigateResetsFreshness(r) ==
    LET m == IF r.page = route.page THEN table_mode ELSE "Title" IN
    /\ route' = r
    /\ table_mode' = m
    /\ status_data' = None
    /\ Rerender(r, m, AppContext(None))
    /\ UNCHANGED << status_error, polls >>
Navigate(r) ==
    LET m == IF r.page = route.page THEN table_mode ELSE "Title" IN
    /\ route' = r
    /\ table_mode' = m
    /\ Rerender(r, m, AppContext(status_data))
    /\ UNCHANGED << status_data, status_error, polls >>

(* ------------------------------ table cells --------------------------- *)
\* A cell is the sequence of the nodes it holds; a badge is named by what
\* its tooltip says.

\* NaiveDateTime::from_timestamp_millis(ms) formatted with TIME_FORMAT
FormatTime(ms) == << "%Y-%m-%d %H:%M:%S", ms >>

\* title_score: the score, then one badge per condition that holds
title_scoreTooLowAtZero(title) ==
    [ value |-> title.score,
      badges |-> (IF title.score <= 0 THEN << "too-low" >> ELSE << >>)
                 \o (IF title.unverified THEN << "unverified" >> ELSE << >>)
                 \o (IF title.locked THEN << "locked" >> ELSE << >>)
                 \o (IF title.shadow_hidden THEN << "shadow-hidden" >> ELSE << >>) ]
title_score(title) ==
    [ value |-> title.score,
      badges |-> (IF title.score < 0 THEN << "too-low" >> ELSE << >>)
                 \o (IF title.unverified THEN << "unverified" >> ELSE << >>)
                 \o (IF title.locked THEN << "locked" >> ELSE << >>)
                 \o (IF title.shadow_hidden THEN << "shadow-hidden" >> ELSE << >>) ]

\* thumbnail_score: the votes, then one badge per condition that holds
thumbnail_score(thumb) ==
    [ value |-> thumb.votes,
      badges |-> (IF thumb.votes < 0 THEN << "too-low" >> ELSE << >>)
                 \o (IF thumb.locked THEN << "locked" >> ELSE << >>)
                 \o (IF thumb.shadow_hidden THEN << "shadow-hidden" >> ELSE << >>) ]

\* original_indicator!
original_indicator(original) == IF original THEN << "recycle" >> ELSE << >>

\* t.timestamp.map_or(original_indicator!(t.original, thumbnail),
\*                    |ts| html! {{ts.to_string()}})
timestamp_cellZeroAbsent(thumb) ==
    IF thumb.timestamp = None \/ thumb.timestamp = Some(0)
      THEN original_indicator(thumb.original)
    ELSE << ToString(thumb.timestamp[1]) >>
timestamp_cell(thumb) ==
    IF thumb.timestamp = None THEN original_indicator(thumb.original)
    ELSE << ToString(thumb.timestamp[1]) >>

\* video_link!: the id linked to YouTube and a Link to the video page
video_linkToUserPage(videoid) ==
    [ text |-> videoid, href |-> << "https://youtu.be/", videoid >>,
      to |-> User(videoid) ]
video_link(videoid) ==
    [ text |-> videoid, href |-> << "https://youtu.be/", videoid >>,
      to |-> Video(videoid) ]

\* user_link!: the id and a Link to the user page
user_link(userid) == [ text |-> userid, to |-> User(userid) ]

\* One <tr> of the titles table. An Option cell is None when its column is
\* hidden.
TitleRow(t, props) ==
    [ key |-> t.uuid,
      submitted |-> FormatTime(t.time_submitted),
      video_id |-> IF props.hide_videoid THEN None ELSE Some(video_link(t.video_id)),
      title |-> << t.title >> \o original_indicator(t.original),
      score |-> title_score(t),
      votes |-> t.votes,
      uuid |-> t.uuid,
      user_id |-> IF props.hide_userid THEN None ELSE Some(user_link(t.user_id)) ]

\* One <tr> of the thumbnails table.
ThumbnailRow(t, props) ==
    [ key |-> t.uuid,
      submitted |-> FormatTime(t.time_submitted),
      video_id |-> IF props.hide_videoid THEN None ELSE Some(video_link(t.video_id)),
      timestamp |-> timestamp_cell(t),
      score |-> thumbnail_score(t),
      uuid |-> t.uuid,
      user_id |-> IF props.hide_userid THEN None ELSE Some(user_link(t.user_id)) ]

\* The <th> row of either table.
TableHeader(kind, props) ==
    << "Submitted" >>
      \o (IF props.hide_videoid THEN << >> ELSE << "Video ID" >>)
      \o (IF kind = "Titles" THEN << "Title", "Score", "Votes" >>
          ELSE << "Timestamp", "Score/Votes" >>)
      \o << "UUID" >>
      \o (IF props.hide_userid THEN << >> ELSE << "User ID" >>)

\* list.iter().map(..): one <tr> per record, in the order of the list
TableRowsReversed(kind, list, props) ==
    [ i \in 1..Len(list) |->
        IF kind = "Titles" THEN TitleRow(list[Len(list) + 1 - i], props)
        ELSE ThumbnailRow(list[Len(list) + 1 - i], props) ]
TableRows(kind, list, props) ==
    [ i \in 1..Len(list) |->
        IF kind = "Titles" THEN TitleRow(list[i], props)
        ELSE ThumbnailRow(list[i], props) ]

\* What the Suspense boundary of the page shows.
View ==
    IF ~HasDetailView(route)
      THEN [shown |-> "none", header |-> <<>>, rows |-> <<>>]
    ELSE IF details.tag = "Pending"
      THEN [shown |-> "Loading...", header |-> <<>>, rows |-> <<>>]
    ELSE IF details.tag = "Err"
      THEN [shown |-> "Failed to fetch details from the API :/",
            header |-> <<>>, rows |-> <<>>]
    ELSE LET props == render_route(route, table_mode) IN
         [ shown |-> IF details.kind = "Titles" THEN "detail-table titles"
                     ELSE "detail-table thumbnails",
           header |-> TableHeader(details.kind, props),
           rows |-> TableRows(details.kind, details.list, props) ]

(* ------------------------------- Init ---------------------------------- *)

\* The state after the first render: the page may be opened at any URL;
\* enable_auto() has started the first status GET; a page with a detail
\* view has started its first fetch.
Init ==
    /\ route \in Route
    /\ searchbar_visible = TRUE
    /\ status_data = None
    /\ status_error = FALSE
    /\ polls = 1
    /\ last_stale = FALSE
    /\ table_mode = "Title"
    /\ served = None
    /\ details = Pending
    /\ IF HasDetailView(route)
         THEN LET props == render_route(route, "Title")
                  key == FetchKey(props.mode, props.url, None) IN
              /\ deps = Some(key)
              /\ cur = 1
              /\ inflight = { [id |-> 1, mode |-> key[1]] }
              /\ last_get = Some(key[2])
              /\ nextId = 2
         ELSE /\ deps = None
              /\ cur = 0
              /\ inflight = {}
              /\ last_get = None
              /\ nextId = 1

(* ------------------------------ Header --------------------------------- *)

Keys == {"Enter", "a"}

\* onclick of the logo or the heading
toggle_searchbar ==
    /\ searchbar_visible' = ~searchbar_visible
    /\ UNCHANGED << route, status_data, status_error, polls, table_mode, deps,
                    cur, details, served, last_stale, last_get, inflight,
                    nextId >>

\* ondblclick of the logo or the heading
go_home ==
    /\ searchbar_visible' = TRUE
    /\ Navigate(Home)

\* onkeydown of the UUID box (rendered only while the search bar is visible)
uuid_search(key) ==
    /\ searchbar_visible
    /\ IF key = "Enter"
         THEN searchbar_visible' = FALSE /\ Navigate(NotFound)
         ELSE UNCHANGED vars

\* onkeydown of the user ID box holding `value`
uid_search(key, value) ==
    /\ searchbar_visible
    /\ IF key = "Enter"
         THEN searchbar_visible' = FALSE /\ Navigate(User(value))
         ELSE UNCHANGED vars

\* onkeydown of the video ID box holding `value`
vid_searchAnyKey(key, value) ==
    /\ searchbar_visible
    /\ searchbar_visible' = FALSE /\ Navigate(Video(value))
vid_search(key, value) ==
    /\ searchbar_visible
    /\ IF key = "Enter"
         THEN searchbar_visible' = FALSE /\ Navigate(Video(value))
         ELSE UNCHANGED vars

(* ------------------------- links and history --------------------------- *)

\* "Return to home page" on the 404 page
NotFoundLink ==
    /\ route = NotFound
    /\ Navigate(Home)
    /\ UNCHANGED searchbar_visible

\* The Link of the video-id cell of row i is followed
VideoLink(i) ==
    /\ i \in 1..Len(View.rows)
    /\ View.rows[i].video_id # None
    /\ Navigate(View.rows[i].video_id[1].to)
    /\ UNCHANGED searchbar_visible

\* The Link of the user-id cell of row i is followed
UserLink(i) ==
    /\ i \in 1..Len(View.rows)
    /\ View.rows[i].user_id # None
    /\ Navigate(View.rows[i].user_id[1].to)
    /\ UNCHANGED searchbar_visible

\* BrowserRouter: back/forward through the history
HistoryNavigate(r) ==
    /\ r # route
    /\ Navigate(r)
    /\ UNCHANGED searchbar_visible

(* --------------------------- TableModeSwitch --------------------------- *)

\* state.set(mode) on the use_state_eq handle of the page, then re-render
SetModeWhenLoaded(mode) ==
    /\ HasDetailView(route)
    /\ details # Pending
    /\ table_mode' = mode
    /\ Rerender(route, mode, AppContext(status_data))
    /\ UNCHANGED << route, searchbar_visible, status_data, status_error, polls >>
SetMode(mode) ==
    /\ HasDetailView(route)
    /\ table_mode' = mode
    /\ Rerender(route, mode, AppContext(status_data))
    /\ UNCHANGED << route, searchbar_visible, status_data, status_error, polls >>

set_titles_mode == SetMode("Title")
set_thumbs_mode == SetMode("Thumbnail")

(* ------------------------------ status poll ---------------------------- *)

\* use_interval: every 60 s, status.run() starts a status GET
IntervalTickUnlessError ==
    /\ polls < MaxPolls
    /\ ~status_error
    /\ polls' = polls + 1
    /\ UNCHANGED << route, searchbar_visible, status_data, status_error,
                    table_mode, deps, cur, details, served, last_stale,
                    last_get, inflight, nextId >>
IntervalTick ==
    /\ polls < MaxPolls
    /\ polls' = polls + 1
    /\ UNCHANGED << route, searchbar_visible, status_data, status_error,
                    table_mode, deps, cur, details, served, last_stale,
                    last_get, inflight, nextId >>

\* use_async on completion of its future: Ok replaces data and clears the
\* error; Err records the error and leaves the previous data alone.
UseAsyncDataCleared(result) == result
UseAsyncData(result) == IF result # None THEN result ELSE status_data

\* A status GET completes with response resp; App re-renders and the
\* memoised AppContext reaches the view.
StatusDone(resp) ==
    /\ polls > 0
    /\ polls' = polls - 1
    /\ LET data == UseAsyncData(StatusFetch(resp)) IN
       /\ status_data' = data
       /\ status_error' = (StatusFetch(resp) = None)
       /\ Rerender(route, table_mode, AppContext(data))
    /\ UNCHANGED << route, searchbar_visible, table_mode >>

(* ------------------------------ detail fetch --------------------------- *)

\* A detail GET completes with response resp.
DetailDone(f, resp) ==
    /\ f \in inflight
    /\ Resume(f, resp, DetailFetch(f.mode, resp))
    /\ UNCHANGED << route, searchbar_visible, status_data, status_error, polls,
                    table_mode >>

(* ------------------------------- Next ---------------------------------- *)

Next ==
    \/ toggle_searchbar
    \/ go_home
    \/ \E k \in Keys : uuid_search(k)
    \/ \E k \in Keys, u \in UserIds : uid_search(k, u)
    \/ \E k \in Keys, v \in VideoIds : vid_search(k, v)
    \/ NotFoundLink
    \/ \E i \in 1..MaxRows : VideoLink(i)
    \/ \E i \in 1..MaxRows : UserLink(i)
    \/ \E r \in Route : HistoryNavigate(r)
    \/ set_titles_mode
    \/ set_thumbs_mode
    \/ IntervalTick
    \/ \E resp \in StatusResponses : StatusDone(resp)
    \/ \E f \in inflight, resp \in Responses : DetailDone(f, resp)

Spec == Init /\ [][Next]_vars

\* The interval timer fires every 60 s for as long as the page is open, and
\* every status GET completes, with a response or with a transport error.
FairSpec ==
    /\ Init /\ [][Next]_vars
    /\ WF_vars(IntervalTick)
    /\ WF_vars(\E resp \in StatusResponses : StatusDone(resp))

(* --------------------------- rendering of records ---------------------- *)
\* The table renderers are functions of the records alone. RenderSpec
\* completes the fetches of a page with one-record responses that range
\* over the values of the fields the cells depend on.

Scores == {-1, 0, 1}
TitleAttrs ==
    [ score : Scores, votes : {5}, unverified : BOOLEAN, locked : BOOLEAN,
      shadow_hidden : BOOLEAN, original : BOOLEAN, timestamp : {None} ]
ThumbnailAttrs ==
    [ score : {5}, votes : Scores, unverified : {FALSE}, locked : BOOLEAN,
      shadow_hidden : BOOLEAN, original : BOOLEAN,
      timestamp : {None, Some(0), Some(1)} ]

OneRecord == << [uuid |-> "a", video_id |-> "v1", user_id |-> "u1"] >>

RenderResponses ==
    { [sent |-> TRUE, status |-> 200,
       body |-> [shape |-> "titles", recs |-> ObjectList("titles", OneRecord, a)]] :
        a \in TitleAttrs }
    \cup
    { [sent |-> TRUE, status |-> 200,
       body |-> [shape |-> "thumbnails",
                 recs |-> ObjectList("thumbnails", OneRecord, a)]] :
        a \in ThumbnailAttrs }

RenderNext ==
    \/ set_titles_mode
    \/ set_thumbs_mode
    \/ \E f \in inflight, resp \in RenderResponses : DetailDone(f, resp)

RenderSpec == Init /\ [][RenderNext]_vars

TypeOK ==
    /\ route \in Route
    /\ searchbar_visible \in BOOLEAN
    /\ status_data \in {None} \cup {Some(t) : t \in Timestamps}
    /\ status_error \in BOOLEAN
    /\ last_stale \in BOOLEAN
    /\ polls \in 0..MaxPolls
    /\ table_mode \in DetailType
    /\ cur \in 0..MaxFetches
    /\ nextId \in 1..(MaxFetches + 1)
    /\ details.tag \in {"Pending", "Err", "Ok"}
    /\ \A f \in inflight : f.id \in 1..MaxFetches

(* ======================== properties of the model ====================== *)

Mounted == HasDetailView(route)

\* The FetchKey of the mounted view: (mode, url, last_updated) as the page
\* and the context hold them now.
CurrentKey == <<table_mode, render_route(route, table_mode).url, status_data>>

ErrorMessage == "Failed to fetch details from the API :/"

InflightIds == { f.id : f \in inflight }

\* C1: whenever the mounted view shows a table or the error message, what it
\* shows is the outcome of the latest fetch, which was issued for the current
\* FetchKey; a response of an earlier fetch arriving later never replaces it.
RaceSafety ==
    (Mounted /\ details # Pending) =>
        /\ deps = Some(CurrentKey)
        /\ cur = nextId - 1
        /\ served # None
        /\ served[1].id = cur
        /\ served[1].mode = CurrentKey[1]
        /\ details = DetailFetch(CurrentKey[1], served[1].resp)

\* C1 witness: the view shows a result and the response of an older fetch
\* arrived after it.
RaceSafetyWitness == Mounted /\ details # Pending /\ last_stale

\* C2: a step that changes the FetchKey leaves the view Pending with the
\* loading placeholder; while the fetch for the current key is in flight the
\* view is Pending; the completion of an older fetch changes nothing shown.
DiscardOnKeyChange ==
    /\ []((Mounted /\ cur \in InflightIds) =>
            (details = Pending /\ View.shown = "Loading..."))
    /\ [][ /\ (Mounted' /\ (~Mounted \/ CurrentKey' # CurrentKey)) =>
                (details' = Pending /\ View'.shown = "Loading...")
           /\ (\E f \in inflight \ inflight' : f.id # cur) =>
                (details' = details /\ served' = served /\ deps' = deps)
         ]_vars

\* C2 witness: the view is Pending for a new key while an older fetch is
\* still in flight.
DiscardOnKeyChangeWitness ==
    /\ Mounted /\ details = Pending /\ cur \in InflightIds
    /\ \E f \in inflight : f.id # cur

\* C3: a step that changes only the timestamp (same route, same mode) gives
\* the mounted view a different key and sends exactly one GET, to the url of
\* the previous one.
FreshnessRefetch ==
    [][ (Mounted /\ route' = route /\ table_mode' = table_mode
            /\ status_data' # status_data) =>
          /\ deps' # deps
          /\ deps' = Some(CurrentKey')
          /\ nextId' = nextId + 1
          /\ cur' = nextId
          /\ InflightIds' = InflightIds \cup {nextId}
          /\ last_get' = last_get
          /\ last_get' = Some(deps[1][2])
          /\ details' = Pending
      ]_vars

\* C3 witness: the home page, still in Titles mode, waits for its second
\* GET, keyed with the second timestamp the server reported, while the GET
\* keyed with the first one is still in flight.
FreshnessRefetchWitness ==
    /\ route = Home /\ table_mode = "Title" /\ details = Pending
    /\ status_data = Some(2) /\ deps = Some(CurrentKey)
    /\ inflight = { [id |-> cur - 1, mode |-> "Title"], [id |-> cur, mode |-> "Title"] }
    /\ last_get = Some(UrlJoin(WindowOrigin, <<"api", "titles">>))

NonSuccessStatusFails ==
    (Mounted /\ served # None /\ served[1].resp.sent
        /\ served[1].resp.status \notin 200..299) =>
        (details = Err /\ View.shown = ErrorMessage /\ View.rows = <<>>)

\* C6: a fetch is issued exactly in the steps in which the view observes a
\* key different from the one it observed before (its first observation
\* included); equal keys issue nothing, and a key used before is fetched anew.
FetchPerKeyChange ==
    /\ [](IF Mounted THEN cur = nextId - 1 /\ cur >= 1 ELSE cur = 0)
    /\ [][ IF Mounted' /\ (~Mounted \/ route'.page # route.page
                               \/ CurrentKey' # CurrentKey)
             THEN /\ nextId' = nextId + 1
                  /\ cur' = nextId
                  /\ InflightIds' = InflightIds \cup {nextId}
             ELSE /\ nextId' = nextId
                  /\ InflightIds' \subseteq InflightIds
                  /\ Mounted' => cur' = cur
         ]_vars

\* C6 witness: with no timestamp known, three GETs were sent, for Titles,
\* Thumbnails and Titles again, and the home page, back on a key used
\* before, waits for the third.
FetchPerKeyChangeWitness ==
    /\ route = Home /\ table_mode = "Title" /\ status_data = None
    /\ details = Pending /\ nextId = 4
    /\ inflight = { [id |-> 1, mode |-> "Title"], [id |-> 2, mode |-> "Thumbnail"],
                    [id |-> 3, mode |-> "Title"] }

\* C7: on the video page, the toggle from Titles to Thumbnails sends a GET
\* to /api/thumbnails/video_id/<id>, and afterwards nothing decoded by an
\* earlier (titles) fetch is shown.
VideoModeSwitch ==
    /\ []((route.page = "Video" /\ table_mode = "Thumbnail") =>
            /\ View.shown # "detail-table titles"
            /\ served # None => (served[1].mode = "Thumbnail" /\ served[1].id = cur))
    /\ [][ (route.page = "Video" /\ route' = route /\ table_mode = "Title"
              /\ table_mode' = "Thumbnail") =>
             /\ last_get' = Some(UrlJoin(WindowOrigin,
                                 <<"api", "thumbnails", "video_id", route.id>>))
             /\ nextId' = nextId + 1
             /\ cur' = nextId
             /\ [id |-> nextId, mode |-> "Thumbnail"] \in inflight'
             /\ details' = Pending
         ]_vars

\* C7 witness: on a video page in Thumbnails mode a thumbnails table is
\* shown and an older fetch completed after it.
VideoModeSwitchWitness ==
    /\ route.page = "Video" /\ table_mode = "Thumbnail"
    /\ details.tag = "Ok" /\ last_stale

\* C8: a displayed table has the kind of the current mode.
KindMatchesMode ==
    (Mounted /\ details.tag = "Ok") =>
        \/ /\ table_mode = "Title"
           /\ details.kind = "Titles"
           /\ View.shown = "detail-table titles"
        \/ /\ table_mode = "Thumbnail"
           /\ details.kind = "Thumbnails"
           /\ View.shown = "detail-table thumbnails"

\* C8 witness: a non-empty thumbnails table is shown after the mode was
\* switched and an older fetch completed late.
KindMatchesModeWitness ==
    /\ Mounted /\ details.tag = "Ok" /\ details.kind = "Thumbnails"
    /\ Len(details.list) > 0 /\ last_stale

\* C9: a transport error or a body that does not decode as the list the
\* key's mode expects gives Failure: the error message and no rows; and the
\* failure stays while the key stays.
FailureIsShown ==
    /\ []((Mounted /\ served # None
             /\ (~served[1].resp.sent
                   \/ ~JsonParses(served[1].mode, served[1].resp.body))) =>
            (details = Err /\ View.shown = ErrorMessage /\ View.rows = <<>>))
    /\ [][ (Mounted /\ details = Err /\ Mounted' /\ route'.page = route.page
              /\ CurrentKey' = CurrentKey) =>
             (details' = Err /\ nextId' = nextId /\ View' = View)
         ]_vars

\* C9 witness: a 200 response carrying thumbnail records arrived for a
\* titles fetch and the error message is shown.
FailureIsShownWitness ==
    /\ Mounted /\ details = Err /\ served # None
    /\ served[1].resp.sent /\ served[1].resp.status = 200
    /\ served[1].resp.body.shape = "thumbnails"
    /\ Len(served[1].resp.body.recs) > 0

\* The path the six templates give for a route and a mode.
TemplatePath(r, m) ==
    << "api", IF m = "Title" THEN "titles" ELSE "thumbnails" >>
        \o (CASE r.page = "Home" -> << >>
              [] r.page = "Video" -> << "video_id", r.id >>
              [] r.page = "User" -> << "user_id", r.id >>)

\* C10: for every page and mode the GET goes to the origin joined with the
\* matching template, and the flags depend on the page only: Home hides
\* nothing, Video hides the video id, User hides the user id.
ScopeResolution ==
    Mounted =>
        /\ last_get = Some(UrlJoin(WindowOrigin, TemplatePath(route, table_mode)))
        /\ deps # None
        /\ deps[1][2] = UrlJoin(WindowOrigin, TemplatePath(route, table_mode))
        /\ \A m \in DetailType :
             /\ render_route(route, m).url = UrlJoin(WindowOrigin, TemplatePath(route, m))
             /\ render_route(route, m).mode = m
             /\ render_route(route, m).hide_videoid = (route.page = "Video")
             /\ render_route(route, m).hide_userid = (route.page = "User")

\* C10 witness: the user page of u2 in Thumbnails mode has sent its GET.
ScopeResolutionWitness ==
    /\ route = User("u2") /\ table_mode = "Thumbnail"
    /\ last_get = Some(UrlJoin(WindowOrigin, <<"api", "thumbnails", "user_id", "u2">>))
    /\ cur \in InflightIds

(* ------------------------------- C11 ----------------------------------- *)

\* C11: the status poll runs for the whole session. A status GET is in
\* flight from startup; every tick issues exactly one GET; whatever the
\* earlier polls returned (a timestamp or an error), a further GET is
\* issued again and again; and a poll that completes with a decodable
\* status sets the shared timestamp to the last_updated of that response.
StatusPollRuns ==
    /\ polls = 1
    /\ []<><<polls' = polls + 1>>_vars
    /\ [][polls' \in {polls - 1, polls, polls + 1}]_vars
    /\ [][\A resp \in StatusResponses :
            StatusDone(resp) /\ StatusFetch(resp) # None
              => status_data' = resp.body]_vars

\* A poll succeeded, a later one failed, and a further GET is in flight.
StatusPollRunsWitness ==
    status_data # None /\ status_error /\ polls > 0

(* ------------------------------- C12 ----------------------------------- *)

\* C12: the mode starts as Titles, and after every step that changes the
\* route (one video id to another and one user id to another included) the
\* page on display is in Titles mode and the GET it sends first goes to a
\* titles endpoint.
ModeResetOnNavigation ==
    /\ table_mode = "Title"
    /\ [][route' # route =>
            /\ table_mode' = "Title"
            /\ HasDetailView(route') =>
                  /\ last_get' # None
                  /\ last_get'[1].path[2] = "titles"]_vars

(* ------------------------------- C13 ----------------------------------- *)

\* The records of the response on display as the request's mode decodes
\* them, in the order of the body.
ServedRecords == ParseList(served[1].mode, served[1].resp.body.recs)
TableShown(kind) == Mounted /\ details.tag = "Ok" /\ details.kind = kind

\* C13: in every row of a thumbnails table the timestamp cell holds the
\* number when the record has a timestamp (0 is shown as "0", and the
\* recycle badge is not shown even for an original), the recycle badge
\* when the record has no timestamp and is an original, and nothing when it
\* has no timestamp and is not an original.
ThumbnailIndicator ==
    TableShown("Thumbnails") =>
        \A i \in 1..Len(View.rows) :
            LET o == ServedRecords[i]
                cell == View.rows[i].timestamp IN
            /\ o.timestamp # None => cell = << ToString(o.timestamp[1]) >>
            /\ o.timestamp = Some(0) => cell = << "0" >>
            /\ o.timestamp = None /\ o.original => cell = << "recycle" >>
            /\ o.timestamp = None /\ ~o.original => cell = << >>

\* C13 witness: an original thumbnail with timestamp 0 is shown as "0".
ThumbnailIndicatorWitness ==
    /\ TableShown("Thumbnails") /\ Len(View.rows) = 1
    /\ ServedRecords[1].timestamp = Some(0) /\ ServedRecords[1].original
    /\ View.rows[1].timestamp = << "0" >>

(* ------------------------------- C14 ----------------------------------- *)

BadgeSet(cell) == { cell.badges[i] : i \in 1..Len(cell.badges) }
When(cond, badge) == IF cond THEN {badge} ELSE {}

\* C14: the score cell of a title row shows the score of the record and
\* exactly the badges too-low (score < 0), unverified, locked and
\* shadow-hidden whose condition holds, each once; the score cell of a
\* thumbnail row shows the votes and exactly the badges too-low
\* (votes < 0), locked and shadow-hidden whose condition holds.
ScoreBadgesAdditive ==
    Mounted /\ details.tag = "Ok" =>
        \A i \in 1..Len(View.rows) :
            LET o == ServedRecords[i]
                cell == View.rows[i].score IN
            /\ Len(cell.badges) = Cardinality(BadgeSet(cell))
            /\ IF details.kind = "Titles"
                 THEN /\ cell.value = o.score
                      /\ BadgeSet(cell) =
                            When(o.score < 0, "too-low")
                              \cup When(o.unverified, "unverified")
                              \cup When(o.locked, "locked")
                              \cup When(o.shadow_hidden, "shadow-hidden")
                 ELSE /\ cell.value = o.votes
                      /\ BadgeSet(cell) =
                            When(o.votes < 0, "too-low")
                              \cup When(o.locked, "locked")
                              \cup When(o.shadow_hidden, "shadow-hidden")

\* C14 witness: a title with score 0 and every flag set shows 0 and the
\* three flag badges, without too-low.
ScoreBadgesAdditiveWitness ==
    /\ TableShown("Titles") /\ Len(View.rows) = 1
    /\ ServedRecords[1].score = 0
    /\ View.rows[1].score =
          [ value |-> 0, badges |-> << "unverified", "locked", "shadow-hidden" >> ]

(* ------------------------------- C15 ----------------------------------- *)

\* C15: a table on display has as many rows as the body of its response
\* has records, and row i is keyed by and shows the uuid of record i of the
\* body: nothing is re-sorted, dropped or duplicated.
RowsInResponseOrder ==
    Mounted /\ details.tag = "Ok" =>
        LET recs == served[1].resp.body.recs IN
        /\ Len(View.rows) = Len(recs)
        /\ \A i \in 1..Len(recs) :
              /\ View.rows[i].key = recs[i].uuid
              /\ View.rows[i].uuid = recs[i].uuid

\* C15 witness: the server sent "b" before "a" and the table shows them so.
RowsInResponseOrderWitness ==
    /\ Mounted /\ details.tag = "Ok"
    /\ Len(served[1].resp.body.recs) = 2
    /\ served[1].resp.body.recs[1].uuid = "b"
    /\ View.rows[1].uuid = "b" /\ View.rows[2].uuid = "a"

(* ------------------------------- C16 ----------------------------------- *)

OtherMode(mode) == IF mode = "Title" THEN "Thumbnail" ELSE "Title"

\* The view is waiting for its fetch and the model can still issue one.
PendingView == Mounted /\ details = Pending /\ nextId <= MaxFetches

\* C16: while the view is Pending the other mode can be selected and every
\* navigation can be made (home, the search boxes when the bar is shown,
\* the browser history); a step that then changes the mode, or the route
\* to another page with a table, changes the key and issues the fetch of
\* the new key at once, the earlier fetch being still in flight.
InteractiveWhilePending ==
    /\ [](PendingView =>
            /\ ENABLED SetMode(OtherMode(table_mode))
            /\ ENABLED go_home
            /\ ENABLED toggle_searchbar
            /\ searchbar_visible =>
                  /\ \A v \in VideoIds : ENABLED vid_search("Enter", v)
                  /\ \A u \in UserIds : ENABLED uid_search("Enter", u)
            /\ \A r \in Route \ {route} : ENABLED HistoryNavigate(r))
    /\ [][(PendingView /\ HasDetailView(route')
                        /\ (table_mode' # table_mode \/ route' # route)) =>
            /\ deps' # deps
            /\ deps' = Some(CurrentKey')
            /\ details' = Pending
            /\ cur' = nextId /\ nextId' = nextId + 1
            /\ [id |-> nextId, mode |-> table_mode'] \in inflight'
            /\ \E f \in inflight \cap inflight' : f.id = cur]_vars

\* C16 witness: Thumbnails was selected while the titles fetch was pending;
\* both requests are in flight and the view waits for the second.
InteractiveWhilePendingWitness ==
    /\ Mounted /\ details = Pending /\ cur = 2
    /\ inflight = { [id |-> 1, mode |-> "Title"], [id |-> 2, mode |-> "Thumbnail"] }

(* ------------------------------- C17 ----------------------------------- *)

\* C17: AppContext.last_updated changes only in a step in which a status
\* poll completes; such a step is no mode toggle, navigation, search-bar
\* action or detail-fetch completion, and starts no poll. Hence every
\* other step, the issue and the completion of a detail fetch included,
\* leaves the timestamp as it was.
SingleWriter ==
    [][AppContext(status_data').last_updated
         # AppContext(status_data).last_updated =>
            /\ polls' = polls - 1
            /\ route' = route
            /\ table_mode' = table_mode
            /\ searchbar_visible' = searchbar_visible
            /\ inflight \subseteq inflight']_vars

\* C17 witness: after a poll set the timestamp, the bar was hidden by a
\* search, Thumbnails was selected and a detail fetch completed; the
\* timestamp is still the one of the poll.
SingleWriterWitness ==
    /\ AppContext(status_data).last_updated = Some(1)
    /\ ~searchbar_visible /\ table_mode = "Thumbnail"
    /\ Mounted /\ details.tag = "Ok" /\ polls = 0

(* ------------------------------- C18 ----------------------------------- *)

InHeader(title) == \E k \in 1..Len(View.header) : View.header[k] = title

\* C18: in a table on display every row has a video-id cell exactly when
\* hide_videoid is unset and a user-id cell exactly when hide_userid is
\* unset, and the header has the column exactly when the rows have the
\* cell; the Link of a cell leads to Video(video_id) or User(user_id) of the
\* record of its own row, which is never the page on display, and a step
\* that follows it shows that page and sends the GET of the by-video or
\* by-user endpoint for that id.
LinkCells ==
    /\ [](Mounted /\ details.tag = "Ok" =>
            LET props == render_route(route, table_mode) IN
            /\ InHeader("Video ID") <=> ~props.hide_videoid
            /\ InHeader("User ID") <=> ~props.hide_userid
            /\ \A i \in 1..Len(View.rows) :
                  LET row == View.rows[i]
                      rec == ServedRecords[i] IN
                  /\ row.video_id # None <=> ~props.hide_videoid
                  /\ row.user_id # None <=> ~props.hide_userid
                  /\ row.video_id # None =>
                        /\ row.video_id[1].text = rec.video_id
                        /\ row.video_id[1].to = Video(rec.video_id)
                        /\ row.video_id[1].to # route
                  /\ row.user_id # None =>
                        /\ row.user_id[1].text = rec.user_id
                        /\ row.user_id[1].to = User(rec.user_id)
                        /\ row.user_id[1].to # route)
    /\ [][route' # route => \A i \in 1..MaxRows :
            /\ VideoLink(i) =>
                  /\ route' = Video(ServedRecords[i].video_id)
                  /\ last_get' # None
                  /\ SubSeq(last_get'[1].path, 3, 4)
                       = << "video_id", ServedRecords[i].video_id >>
            /\ UserLink(i) =>
                  /\ route' = User(ServedRecords[i].user_id)
                  /\ last_get' # None
                  /\ SubSeq(last_get'[1].path, 3, 4)
                       = << "user_id", ServedRecords[i].user_id >>]_vars

\* C18 witness: the home page shows a row of record "b" with both cells,
\* and its video link can be followed.
LinkCellsWitness ==
    /\ Mounted /\ details.tag = "Ok" /\ route = Home
    /\ Len(View.rows) >= 1
    /\ View.rows[1].video_id = Some(video_link("v2"))
    /\ View.rows[1].user_id = Some(user_link("u2"))
    /\ ENABLED VideoLink(1)

(* ------------------------------- C19 ----------------------------------- *)

\* C19: Enter in a search box hides the search bar and navigates: the
\* video ID box to Video(value), the user ID box to User(value), the UUID
\* box to NotFound; any other key changes neither the route nor the
\* visibility of the bar; a click on the header toggles the bar and keeps
\* the route; a double click shows Home with the bar visible.
HeaderSearch ==
    [][/\ \A v \in VideoIds :
            vid_search("Enter", v) => ~searchbar_visible' /\ route' = Video(v)
       /\ \A u \in UserIds :
            uid_search("Enter", u) => ~searchbar_visible' /\ route' = User(u)
       /\ uuid_search("Enter") => ~searchbar_visible' /\ route' = NotFound
       /\ \A k \in Keys \ {"Enter"} :
            (\/ uuid_search(k)
             \/ \E v \in VideoIds : vid_search(k, v)
             \/ \E u \in UserIds : uid_search(k, u))
              => route' = route /\ searchbar_visible' = searchbar_visible
       /\ toggle_searchbar =>
            route' = route /\ searchbar_visible' = ~searchbar_visible
       /\ go_home => route' = Home /\ searchbar_visible']_vars

\* C19 witness: Enter in the video ID box with "v2" hid the bar and the
\* page of v2 is on display.
HeaderSearchWitness ==
    /\ ~searchbar_visible /\ route = Video("v2") /\ Mounted
    /\ last_get = Some(UrlJoin(WindowOrigin, <<"api", "titles", "video_id", "v2">>))

====
